---- MODULE Spec2Model ----
(***************************************************************************)
(* WeatherApp: the CityAutocomplete component (debounced city search,      *)
(* suggestion panel, keyboard navigation) as it is mounted by Weather,     *)
(* together with searchCities of the weatherApi service, the location,     *)
(* weather and forecast requests of Weather, and the daily aggregation of  *)
(* the Forecast component.                                                 *)
(*                                                                         *)
(* Strings are sequences of one-character strings, so that length, trim,   *)
(* split and concatenation are computed as the JavaScript code does.       *)
(* One step of the model is one browser task: an event handler with the    *)
(* state updates React batches for it and the effects of the render that   *)
(* follows, a timer callback, or the continuation of an awaited promise.   *)
(***************************************************************************)
EXTENDS Integers, Sequences, FiniteSets, TLC

\* ------------------------------------------------------------------ bounds
\* longest text the user types into the input
MaxLen == 2
\* most records in one array returned by the geocoding provider
MaxData == 2
\* most searchCities network calls outstanding at one time
MaxInFlight == 2
\* most getCurrentPosition, getWeatherByCoords and getForecastByCoords calls
\* outstanding at one time
MaxGeoReqs == 1
MaxWeatherReqs == 1
MaxForecastReqs == 1
\* most forecast requests in flight at once where the fetches may overlap
MaxOverlap == 2
\* most records in a response of the geocoding provider where the weather
\* flow is followed to its end
MaxFairData == 1

\* ------------------------------------------------------- program constants
\* CityAutocomplete.tsx:37, weatherApi.ts:128  minimum query length
MinQueryLen == 2
\* CityAutocomplete.tsx:45  limit passed to searchCities
SearchLimit == 5

\* ------------------------------------------------------------------ strings
\* characters the user can type
Alphabet == {"a", " "}

EmptyStr == <<>>

RECURSIVE TypedTexts(_)
TypedTexts(n) ==
  IF n = 0 THEN {EmptyStr}
  ELSE LET shorter == TypedTexts(n - 1)
       IN  shorter \cup {Append(s, c) : s \in {t \in shorter : Len(t) = n - 1}, c \in Alphabet}

\* every text the user can leave in the input
Texts == TypedTexts(MaxLen)

IsSpace(c) == c = " "

\* String.prototype.trim: whitespace removed from both ends
RECURSIVE TrimStart(_)
TrimStart(s) ==
  IF s = EmptyStr THEN EmptyStr
  ELSE IF IsSpace(Head(s)) THEN TrimStart(Tail(s)) ELSE s

RECURSIVE TrimEnd(_)
TrimEnd(s) ==
  IF s = EmptyStr THEN EmptyStr
  ELSE IF IsSpace(s[Len(s)]) THEN TrimEnd(SubSeq(s, 1, Len(s) - 1)) ELSE s

Trim(s) == TrimEnd(TrimStart(s))

\* s.split(',')[0]: the text before the first comma
RECURSIVE FirstSegment(_)
FirstSegment(s) ==
  IF s = EmptyStr THEN EmptyStr
  ELSE IF Head(s) = "," THEN EmptyStr
  ELSE <<Head(s)>> \o FirstSegment(Tail(s))

\* JavaScript truthiness of a string
Truthy(s) == s # EmptyStr

\* ------------------------------------------------------------------ numbers
\* a JavaScript number: NaN or an integer value
NaN == [nan |-> TRUE, val |-> 0]
Num(n) == [nan |-> FALSE, val |-> n]

Digits == <<"0", "1", "2", "3", "4", "5", "6", "7", "8", "9">>
IsDigit(c) == \E i \in 1..10 : Digits[i] = c
DigitVal(c) == (CHOOSE i \in 1..10 : Digits[i] = c) - 1

RECURSIVE LeadingDigits(_)
LeadingDigits(s) ==
  IF s = EmptyStr \/ ~IsDigit(Head(s)) THEN EmptyStr
  ELSE <<Head(s)>> \o LeadingDigits(Tail(s))

RECURSIVE DigitsValue(_)
DigitsValue(s) ==
  IF s = EmptyStr THEN 0
  ELSE 10 * DigitsValue(SubSeq(s, 1, Len(s) - 1)) + DigitVal(s[Len(s)])

\* parseFloat of an optional string (<<>> is undefined, <<s>> the string s);
\* the provider's coordinates are whole degrees in this model
parseFloat(opt) ==
  IF opt = <<>> THEN NaN
  ELSE LET s    == TrimStart(opt[1])
           neg  == s # EmptyStr /\ Head(s) = "-"
           body == IF neg THEN Tail(s) ELSE s
           ds   == LeadingDigits(body)
       IN  IF ds = EmptyStr THEN NaN
           ELSE Num(IF neg THEN 0 - DigitsValue(ds) ELSE DigitsValue(ds))

\* --------------------------------------------------- weatherApi.searchCities
\* an optional value: <<>> is undefined, <<v>> is the value v
Undefined == <<>>
Some(v) == <<v>>

\* records of the geocoding provider's JSON array
RawParis ==
  [type |-> "city", name |-> Some(<<"P">>), display_name |-> Some(<<"P", ",", "F">>),
   address |-> Some([country |-> Some(<<"F">>), state |-> Undefined, region |-> Undefined]),
   lat |-> Some(<<"4", "8">>), lon |-> Some(<<"2">>)]
RawSalem ==
  [type |-> "town", name |-> Undefined, display_name |-> Some(<<"S", ",", "O", ",", "U">>),
   address |-> Some([country |-> Some(<<"U">>), state |-> Some(<<"O">>), region |-> Undefined]),
   lat |-> Some(<<"4", "4">>), lon |-> Some(<<"-", "1", "2">>)]
RawVillage ==
  [type |-> "village", name |-> Some(<<"V">>), display_name |-> Some(<<"V", ",", "F">>),
   address |-> Some([country |-> Some(<<"F">>), state |-> Undefined, region |-> Undefined]),
   lat |-> Some(<<"1">>), lon |-> Some(<<"1">>)]
RawNameless ==
  [type |-> "city", name |-> Undefined, display_name |-> Undefined,
   address |-> Undefined, lat |-> Some(<<"7">>), lon |-> Some(<<"7">>)]

RawRecords == {RawParis, RawSalem, RawVillage, RawNameless}

RECURSIVE SeqsUpTo(_, _)
SeqsUpTo(S, n) ==
  IF n = 0 THEN {<<>>}
  ELSE LET shorter == SeqsUpTo(S, n - 1)
       IN  shorter \cup {Append(q, x) : q \in {t \in shorter : Len(t) = n - 1}, x \in S}

\* what the geocoding request can come back with
Outcomes ==
  {[kind |-> k, data |-> <<>>] : k \in {"network_failure", "not_ok", "bad_json", "non_array"}}
    \cup {[kind |-> "array", data |-> d] : d \in SeqsUpTo(RawRecords, MaxData)}

\* a || b || '' on optional strings
OrElse(a, b) == IF a # Undefined /\ Truthy(a[1]) THEN a[1]
                ELSE IF b # Undefined /\ Truthy(b[1]) THEN b[1] ELSE EmptyStr

\* item.address?.field
AddressField(item, f) == IF item.address = Undefined THEN Undefined ELSE item.address[1][f]

\* a filter that keeps cities and towns only
IsCityOrTown(item) == item.type = "city" \/ item.type = "town"

IsPlace(item) == item.type = "city" \/ item.type = "town" \/ item.type = "administrative"

RECURSIVE Filter(_)
Filter(data) ==
  IF data = <<>> THEN <<>>
  ELSE IF IsPlace(Head(data)) THEN <<Head(data)>> \o Filter(Tail(data))
  ELSE Filter(Tail(data))

Slice(s, limit) == SubSeq(s, 1, IF Len(s) < limit THEN Len(s) ELSE limit)

\* item.name || item.display_name.split(',')[0] throws a TypeError when the
\* name is falsy and display_name is undefined
MapThrows(item) ==
  (item.name = Undefined \/ ~Truthy(item.name[1])) /\ item.display_name = Undefined

MapItem(item) ==
  [name    |-> IF item.name # Undefined /\ Truthy(item.name[1]) THEN item.name[1]
               ELSE FirstSegment(item.display_name[1]),
   country |-> OrElse(AddressField(item, "country"), Undefined),
   state   |-> OrElse(AddressField(item, "state"), AddressField(item, "region")),
   lat     |-> parseFloat(item.lat),
   lon     |-> parseFloat(item.lon)]

Returns(v) == [throws |-> FALSE, value |-> v]
Throws == [throws |-> TRUE, value |-> <<>>]

\* the early return of searchCities: no request is issued
SkipsRequest(query) == ~Truthy(Trim(query)) \/ Len(query) < MinQueryLen

\* the body of the try block, given what the request comes back with
searchCitiesTry(limit, outcome) ==
  IF outcome.kind = "network_failure" THEN Throws
  ELSE IF outcome.kind = "not_ok" THEN Returns(<<>>)
  ELSE IF outcome.kind = "bad_json" THEN Throws
  ELSE IF outcome.kind = "non_array" THEN Returns(<<>>)
  ELSE LET kept == Slice(Filter(outcome.data), limit)
       IN  IF \E i \in 1..Len(kept) : MapThrows(kept[i]) THEN Throws
           ELSE Returns([i \in 1..Len(kept) |-> MapItem(kept[i])])

\* searchCities without its catch block
searchCitiesRethrows(attempt) == attempt

\* try { ... } catch (error) { return [] }
searchCitiesCatch(attempt) == IF attempt.throws THEN Returns(<<>>) ELSE attempt


\* ------------------------------------------------------------------- state
VARIABLES
  searchQuery,      \* Weather: searchQuery, the value prop of CityAutocomplete
  loading,          \* Weather: loading, the disabled prop of CityAutocomplete
  error,            \* Weather: error ("null" or the message)
  locationAllowed,  \* Weather: locationAllowed ("null", "true", "false")
  weatherData,      \* Weather: weatherData (<<>> or <<coord>>)
  forecastData,     \* Weather: forecastData (<<>> or <<coord it was fetched for>>)
  loadingForecast,  \* Weather: loadingForecast
  hasGeolocation,   \* whether navigator.geolocation exists in this browser
  geoReqs,          \* getCurrentPosition calls not yet answered ("mount", "use")
  weatherReqs,      \* getWeatherByCoords calls not yet settled
  forecastReqs,     \* getForecastByCoords calls not yet settled
  suggestions,      \* CityAutocomplete: suggestions
  isOpen,           \* CityAutocomplete: isOpen
  selectedIndex,    \* CityAutocomplete: selectedIndex
  timers,           \* pending setTimeout callbacks, each with the value it captured
  debounceRef,      \* debounceRef.current: "undefined", "pending" (the last of
                    \* timers) or "dead" (a timer that fired or was cleared)
  searchReqs,       \* geocoding requests of searchCities not yet answered, oldest
                    \* first; latest marks the call started last
  lastEvent,        \* history: the step taken last, when it was an edit of the
                    \* text, a response, a selection, Enter, Escape, a
                    \* mousedown or a failure
  downs,            \* history: ArrowDown presses since the cursor stood at -1 on
                    \* the open panel (-1 outside such a run)
  unhandled,        \* history: a searchCities promise was rejected
  forecastItems,    \* Forecast: the forecastItems prop
  tzOffset,         \* hours the local time zone of the browser is ahead of UTC
  clock,            \* the time at which Forecast renders
  dailyForecasts,   \* Forecast: dailyForecasts of the last render
  apiData,          \* searchCities: the array the provider returned
  apiLimit,         \* searchCities: its limit argument
  apiResult         \* searchCities: what the call resolved to

acVars == <<suggestions, isOpen, selectedIndex, timers, debounceRef, searchReqs>>
weatherVars == <<loading, error, locationAllowed, weatherData, forecastData,
                 loadingForecast, hasGeolocation, geoReqs, weatherReqs, forecastReqs>>
histVars == <<lastEvent, downs, unhandled>>
forecastVars == <<forecastItems, tzOffset, clock, dailyForecasts>>
apiVars == <<apiData, apiLimit, apiResult>>
vars == <<searchQuery, acVars, weatherVars, histVars, forecastVars, apiVars>>

\* op: the handler; kind: its case ("restart": an edit made while a timer was
\* pending; the error code of a geolocation failure); stale: a response of a
\* superseded query; city: the suggestion handed to handleSelect
Event(op, kind, stale, city) == [op |-> op, kind |-> kind, stale |-> stale, city |-> city]
Other == Event("other", "", FALSE, <<>>)

RemoveAt(s, i) == SubSeq(s, 1, i - 1) \o SubSeq(s, i + 1, Len(s))

Min(a, b) == IF a < b THEN a ELSE b

\* the position the browser reports
GeoPosition == [lat |-> Num(59), lon |-> Num(18)]

\* messages a failed getWeatherByCoords carries
WeatherErrors == {"Failed to fetch weather data"}

\* ------------------------------------------- CityAutocomplete: debounce effect
\* a debounce effect that leaves the pending timer running
clearTimeoutSkipped(ts, ref) == ts

\* if (debounceRef.current) clearTimeout(debounceRef.current)
clearTimeout(ts, ref) == IF ref = "pending" THEN SubSeq(ts, 1, Len(ts) - 1) ELSE ts
refAfterClear(ref) == IF ref = "pending" THEN "dead" ELSE ref

\* the too-short test of the effect
TooShort(value) == Len(value) < MinQueryLen

\* the effect of lines 30-56, run after a render in which value changed:
\* the state it leaves, given the state the handler left
DebounceEffect(value, sugg, open) ==
  LET cleared == clearTimeout(timers, debounceRef)
  IN  IF TooShort(value)
      THEN [timers |-> cleared, debounceRef |-> refAfterClear(debounceRef),
            suggestions |-> <<>>, isOpen |-> FALSE]
      ELSE [timers |-> Append(cleared, value), debounceRef |-> "pending",
            suggestions |-> sugg, isOpen |-> open]

\* a render: the effect runs only when value differs from the last render
AfterRender(value, sugg, open) ==
  IF value # searchQuery THEN DebounceEffect(value, sugg, open)
  ELSE [timers |-> timers, debounceRef |-> debounceRef,
        suggestions |-> sugg, isOpen |-> open]

\* the run of ArrowDown presses restarts wherever the cursor stands at -1 on
\* an open, non-empty panel
RunStart(sugg, open, idx) == IF open /\ Len(sugg) >= 1 /\ idx = -1 THEN 0 ELSE -1

\* Forecast has not rendered: Weather shows it only on the forecast tab
ForecastIdle ==
  forecastItems = <<>> /\ tzOffset = 0 /\ clock = 0 /\ dailyForecasts = <<>>

\* searchCities is called by the debounce callback only
ApiIdle == apiData = <<>> /\ apiLimit = SearchLimit /\ apiResult = <<>>

Init ==
  /\ searchQuery = EmptyStr
  /\ suggestions = <<>>
  /\ isOpen = FALSE
  /\ selectedIndex = -1
  /\ timers = <<>>
  /\ debounceRef = "undefined"
  /\ searchReqs = <<>>
  /\ weatherData = <<>>
  /\ forecastData = <<>>
  /\ loadingForecast = FALSE
  /\ weatherReqs = <<>>
  /\ forecastReqs = <<>>
  /\ hasGeolocation \in BOOLEAN
  \* Weather.tsx:39-71, the mount effect
  /\ loading = hasGeolocation
  /\ geoReqs = IF hasGeolocation THEN <<"mount">> ELSE <<>>
  /\ locationAllowed = IF hasGeolocation THEN "null" ELSE "false"
  /\ error = IF hasGeolocation THEN "null"
             ELSE "Geolocation is not supported by your browser"
  /\ lastEvent = Other
  /\ downs = -1
  /\ unhandled = FALSE
  /\ ForecastIdle
  /\ ApiIdle

\* handleInputChange: the user edits the text to v (the input is enabled)
Type(v) ==
  /\ ~loading
  /\ v # searchQuery
  /\ LET r == AfterRender(v, suggestions, isOpen)
     IN  /\ searchQuery' = v
         /\ timers' = r.timers
         /\ debounceRef' = r.debounceRef
         /\ suggestions' = r.suggestions
         /\ isOpen' = r.isOpen
         /\ downs' = RunStart(r.suggestions, r.isOpen, selectedIndex)
  /\ lastEvent' = Event("type", IF timers # <<>> THEN "restart" ELSE "", FALSE, <<>>)
  /\ UNCHANGED <<selectedIndex, searchReqs, weatherVars, unhandled, forecastVars, apiVars>>

Superseded(reqs) == [k \in 1..Len(reqs) |-> [reqs[k] EXCEPT !.latest = FALSE]]

\* the debounce timer expires: the callback of lines 44-49 up to its await
TimerFires(i) ==
  /\ i \in 1..Len(timers)
  /\ LET value == timers[i]
     IN  /\ timers' = RemoveAt(timers, i)
         /\ debounceRef' = IF i = Len(timers) /\ debounceRef = "pending"
                           THEN "dead" ELSE debounceRef
         /\ IF SkipsRequest(value)
            THEN \* the promise is already resolved with []: lines 46-48 follow
                 /\ suggestions' = <<>>
                 /\ isOpen' = FALSE
                 /\ selectedIndex' = -1
                 /\ searchReqs' = Superseded(searchReqs)
                 /\ downs' = -1
                 /\ lastEvent' = Other
            ELSE /\ Len(searchReqs) < MaxInFlight
                 /\ searchReqs' = Append(Superseded(searchReqs),
                                         [latest |-> TRUE])
                 /\ lastEvent' = Other
                 /\ UNCHANGED <<suggestions, isOpen, selectedIndex, downs>>
  /\ UNCHANGED <<searchQuery, weatherVars, unhandled, forecastVars, apiVars>>

OutcomeClass(outcome) ==
  IF outcome.kind # "array" THEN outcome.kind
  ELSE IF searchCitiesTry(SearchLimit, outcome).throws THEN "array_throwing"
  ELSE "array"

\* searchCities(value, 5) from its await on, for each thing the request can
\* come back with
Settled ==
  [o \in Outcomes |-> [result |-> searchCitiesCatch(searchCitiesTry(SearchLimit, o)),
                       class  |-> OutcomeClass(o)]]

\* a geocoding request is answered: searchCities from its await on (the
\* request was issued, so the early return was not taken), then lines 46-48
SearchSettles(i, outcome) ==
  /\ i \in 1..Len(searchReqs)
  /\ LET req == searchReqs[i]
         res == Settled[outcome].result
     IN  /\ searchReqs' = RemoveAt(searchReqs, i)
         /\ lastEvent' = Event("response", Settled[outcome].class, ~req.latest, <<>>)
         /\ IF res.throws
            THEN \* the async callback rejects; nothing is set
                 /\ unhandled' = TRUE
                 /\ UNCHANGED <<suggestions, isOpen, selectedIndex, downs>>
            ELSE /\ suggestions' = res.value
                 /\ isOpen' = (Len(res.value) > 0)
                 /\ selectedIndex' = -1
                 /\ downs' = RunStart(res.value, Len(res.value) > 0, -1)
                 /\ UNCHANGED unhandled
  /\ UNCHANGED <<searchQuery, timers, debounceRef, weatherVars,
                 forecastVars, apiVars>>

\* ----------------------------------------------- CityAutocomplete: handlers
\* getCityDisplayName and the template of handleSelect (lines 80, 113)
getCityDisplayName(city) ==
  city.name \o (IF Truthy(city.state) THEN <<",", " ">> \o city.state ELSE EmptyStr)
            \o <<",", " ">> \o city.country

\* the searchQuery that the state updates of one selection leave: onChange
\* sets the label (CityAutocomplete.tsx:80), then onSelect runs handleCitySelect,
\* whose setSearchQuery('') (Weather.tsx:76) is the later update of the batch
QueryAfterSelect(city) ==
  LET afterOnChange == getCityDisplayName(city)
      afterOnSelect == EmptyStr
  IN  afterOnSelect

\* handleSelect(city) with onSelect = handleCitySelect up to its await
HandleSelect(city, op) ==
  /\ Len(weatherReqs) < MaxWeatherReqs
  /\ LET q == QueryAfterSelect(city)
         r == AfterRender(q, <<>>, FALSE)
     IN  /\ searchQuery' = q
         /\ timers' = r.timers
         /\ debounceRef' = r.debounceRef
         /\ suggestions' = r.suggestions
         /\ isOpen' = r.isOpen
  /\ loading' = TRUE
  /\ error' = "null"
  /\ weatherReqs' = Append(weatherReqs, [origin |-> "select", lat |-> city.lat, lon |-> city.lon])
  /\ downs' = -1
  /\ lastEvent' = Event(op, "commit", FALSE, <<city>>)
  /\ UNCHANGED <<selectedIndex, searchReqs, locationAllowed, weatherData, forecastData,
                 loadingForecast, hasGeolocation, geoReqs, forecastReqs, unhandled,
                 forecastVars, apiVars>>

\* onClick of a suggestion button: rendered while the panel is open, and not
\* disabled by the disabled prop
ClickSuggestion(i) ==
  /\ isOpen
  /\ i \in 1..Len(suggestions)
  /\ HandleSelect(suggestions[i], "click")

\* a handleKeyDown that does not look at isOpen
KeysIgnoredWhenEmpty == Len(suggestions) = 0

\* the first line of handleKeyDown
KeysIgnored == ~isOpen \/ Len(suggestions) = 0

\* a key handled without any state update
KeyNoOp(ev) ==
  /\ lastEvent' = ev
  /\ UNCHANGED <<searchQuery, acVars, weatherVars, downs, unhandled, forecastVars, apiVars>>

\* an ArrowDown that is not clamped at the last suggestion
ArrowDownUnclamped(prev, len) == prev + 1

\* an ArrowUp that is not clamped at -1
ArrowUpUnclamped(prev) == prev - 1

ArrowDownIndex(prev, len) == IF prev < len - 1 THEN prev + 1 ELSE prev
ArrowUpIndex(prev) == IF prev > 0 THEN prev - 1 ELSE -1

\* the count of presses stops at one more than the longest list
MaxDowns == MaxData + 1

KeyArrowDown ==
  /\ ~loading
  /\ IF KeysIgnored THEN KeyNoOp(Other)
     ELSE /\ selectedIndex' = ArrowDownIndex(selectedIndex, Len(suggestions))
          /\ downs' = IF downs >= 0 THEN Min(downs + 1, MaxDowns) ELSE -1
          /\ lastEvent' = Other
          /\ UNCHANGED <<searchQuery, suggestions, isOpen, timers, debounceRef,
                         searchReqs, weatherVars, unhandled, forecastVars, apiVars>>

KeyArrowUp ==
  /\ ~loading
  /\ IF KeysIgnored THEN KeyNoOp(Other)
     ELSE /\ selectedIndex' = ArrowUpIndex(selectedIndex)
          /\ downs' = RunStart(suggestions, isOpen, ArrowUpIndex(selectedIndex))
          /\ lastEvent' = Other
          /\ UNCHANGED <<searchQuery, suggestions, isOpen, timers, debounceRef,
                         searchReqs, weatherVars, unhandled, forecastVars, apiVars>>

\* the test of the Enter case
EnterCommits == selectedIndex >= 0 /\ selectedIndex < Len(suggestions)

KeyEnter ==
  /\ ~loading
  /\ IF KeysIgnored \/ ~EnterCommits THEN KeyNoOp(Event("Enter", "ignored", FALSE, <<>>))
     ELSE HandleSelect(suggestions[selectedIndex + 1], "Enter")

\* an Escape that also empties the suggestion list
KeyEscapeClears ==
  /\ ~loading
  /\ isOpen
  /\ isOpen' = FALSE
  /\ suggestions' = <<>>
  /\ downs' = -1
  /\ lastEvent' = Event("Escape", "", FALSE, <<>>)
  /\ UNCHANGED <<searchQuery, selectedIndex, timers, debounceRef,
                 searchReqs, weatherVars, unhandled, forecastVars, apiVars>>

KeyEscape ==
  /\ ~loading
  /\ IF KeysIgnored THEN KeyNoOp(Event("Escape", "ignored", FALSE, <<>>))
     ELSE /\ isOpen' = FALSE
          /\ downs' = -1
          /\ lastEvent' = Event("Escape", "", FALSE, <<>>)
          /\ UNCHANGED <<searchQuery, suggestions, selectedIndex, timers, debounceRef,
                         searchReqs, weatherVars, unhandled, forecastVars, apiVars>>

\* onFocus of the input
Focus ==
  /\ ~loading
  /\ isOpen' = IF Len(suggestions) > 0 THEN TRUE ELSE isOpen
  /\ downs' = IF isOpen THEN downs
              ELSE RunStart(suggestions, Len(suggestions) > 0, selectedIndex)
  /\ lastEvent' = Other
  /\ UNCHANGED <<searchQuery, suggestions, selectedIndex, timers, debounceRef,
                 searchReqs, weatherVars, unhandled, forecastVars, apiVars>>

\* a handleClickOutside that also takes the cursor off the list
ClickOutsideResets ==
  /\ isOpen' = FALSE
  /\ selectedIndex' = -1
  /\ downs' = -1
  /\ lastEvent' = Event("clickOutside", IF isOpen THEN "closes" ELSE "", FALSE, <<>>)
  /\ UNCHANGED <<searchQuery, suggestions, timers, debounceRef,
                 searchReqs, weatherVars, unhandled, forecastVars, apiVars>>

\* handleClickOutside for a mousedown inside the container (the input, the
\* panel): contains() holds and nothing is set
MouseDownInside == KeyNoOp(Event("mouseDownInside", "", FALSE, <<>>))

\* handleClickOutside for a mousedown outside the container ("closes": the
\* panel was open)
ClickOutside ==
  /\ isOpen' = FALSE
  /\ downs' = -1
  /\ lastEvent' = Event("clickOutside", IF isOpen THEN "closes" ELSE "", FALSE, <<>>)
  /\ UNCHANGED <<searchQuery, suggestions, selectedIndex, timers, debounceRef,
                 searchReqs, weatherVars, unhandled, forecastVars, apiVars>>

\* a catch block with no finally after it
WeatherFailsKeepsLoading(i, msg) ==
  /\ i \in 1..Len(weatherReqs)
  /\ msg \in WeatherErrors
  /\ weatherReqs' = RemoveAt(weatherReqs, i)
  /\ error' = msg
  /\ lastEvent' = Event("weatherFails", "", FALSE, <<>>)
  /\ UNCHANGED <<searchQuery, acVars, loading, locationAllowed, weatherData, forecastData,
                 loadingForecast, hasGeolocation, geoReqs, forecastReqs,
                 downs, unhandled, forecastVars, apiVars>>

\* getWeatherByCoords rejects: the catch and finally blocks
WeatherFails(i, msg) ==
  /\ i \in 1..Len(weatherReqs)
  /\ msg \in WeatherErrors
  /\ weatherReqs' = RemoveAt(weatherReqs, i)
  /\ error' = msg
  /\ loading' = FALSE
  /\ lastEvent' = Event("weatherFails", "", FALSE, <<>>)
  /\ UNCHANGED <<searchQuery, acVars, locationAllowed, weatherData, forecastData,
                 loadingForecast, hasGeolocation, geoReqs, forecastReqs,
                 downs, unhandled, forecastVars, apiVars>>

\* handleUseLocation: either "Use Location" button (both need !loading)
UseLocation ==
  /\ locationAllowed = "false"
  /\ ~loading
  /\ IF ~hasGeolocation
     THEN /\ error' = "Geolocation is not supported"
          /\ UNCHANGED <<loading, geoReqs>>
     ELSE /\ Len(geoReqs) < MaxGeoReqs
          /\ loading' = TRUE
          /\ error' = "null"
          /\ geoReqs' = Append(geoReqs, "use")
  /\ lastEvent' = Other
  /\ UNCHANGED <<searchQuery, acVars, locationAllowed, weatherData, forecastData,
                 loadingForecast, hasGeolocation, weatherReqs, forecastReqs,
                 downs, unhandled, forecastVars, apiVars>>

\* ------------------------------------------------------- Weather: requests
\* getCurrentPosition calls its success callback (up to the await)
GeoSucceeds(i) ==
  /\ i \in 1..Len(geoReqs)
  /\ Len(weatherReqs) < MaxWeatherReqs
  /\ geoReqs' = RemoveAt(geoReqs, i)
  /\ locationAllowed' = "true"
  /\ weatherReqs' = Append(weatherReqs, [origin |-> geoReqs[i],
                                         lat |-> GeoPosition.lat, lon |-> GeoPosition.lon])
  /\ lastEvent' = Other
  /\ UNCHANGED <<searchQuery, acVars, loading, error, weatherData, forecastData,
                 loadingForecast, hasGeolocation, forecastReqs, downs, unhandled,
                 forecastVars, apiVars>>

GeoFailures == {"PERMISSION_DENIED", "POSITION_UNAVAILABLE", "TIMEOUT"}

\* a failure callback on mount that shows a message for every code
MountGeoErrorAlways(code, old) == "Failed to get your location"

\* the error left by the failure callback on mount (lines 58-65)
MountGeoError(code, old) ==
  IF code # "PERMISSION_DENIED" THEN "Failed to get your location" ELSE old

\* the error set by the failure callback of handleUseLocation (lines 112-119)
UseGeoError(code) ==
  IF code = "PERMISSION_DENIED"
  THEN "Location permission denied. Please enable location access or search for a city."
  ELSE "Failed to get your location"

\* getCurrentPosition calls its failure callback
GeoFails(i, code) ==
  /\ i \in 1..Len(geoReqs)
  /\ code \in GeoFailures
  /\ geoReqs' = RemoveAt(geoReqs, i)
  /\ loading' = FALSE
  /\ IF geoReqs[i] = "mount"
     THEN /\ locationAllowed' = "false"
          /\ error' = MountGeoError(code, error)
     ELSE /\ error' = UseGeoError(code)
          /\ UNCHANGED locationAllowed
  /\ lastEvent' = Event(IF geoReqs[i] = "mount" THEN "mountGeoFails" ELSE "useGeoFails",
                        code, FALSE, <<>>)
  /\ UNCHANGED <<searchQuery, acVars, weatherData, forecastData, loadingForecast,
                 hasGeolocation, weatherReqs, forecastReqs, downs, unhandled,
                 forecastVars, apiVars>>

\* getWeatherByCoords resolves: the try and finally blocks after the await,
\* and the forecast effect of lines 21-36 run by the render with the new
\* weatherData.  The provider answers a request whose coordinates are NaN
\* with an error status.
WeatherSucceedsUnder(i, cap) ==
  /\ i \in 1..Len(weatherReqs)
  /\ Len(forecastReqs) < cap
  /\ LET req   == weatherReqs[i]
         coord == [lat |-> req.lat, lon |-> req.lon]
     IN  /\ ~req.lat.nan /\ ~req.lon.nan
         /\ weatherData' = <<coord>>
         /\ error' = IF req.origin = "mount" THEN "null" ELSE error
         /\ loadingForecast' = TRUE
         /\ forecastReqs' = Append(forecastReqs, coord)
  /\ weatherReqs' = RemoveAt(weatherReqs, i)
  /\ loading' = FALSE
  /\ lastEvent' = Other
  /\ UNCHANGED <<searchQuery, acVars, locationAllowed, forecastData, hasGeolocation,
                 geoReqs, downs, unhandled, forecastVars, apiVars>>

WeatherSucceeds(i) == WeatherSucceedsUnder(i, MaxForecastReqs)

\* getForecastByCoords resolves: then and finally
ForecastSucceeds(i) ==
  /\ i \in 1..Len(forecastReqs)
  /\ forecastReqs' = RemoveAt(forecastReqs, i)
  /\ forecastData' = <<forecastReqs[i]>>
  /\ loadingForecast' = FALSE
  /\ lastEvent' = Other
  /\ UNCHANGED <<searchQuery, acVars, loading, error, locationAllowed, weatherData,
                 hasGeolocation, geoReqs, weatherReqs, downs, unhandled, forecastVars, apiVars>>

\* a forecast effect whose catch shows the failure
ForecastFailsShowsError(i) ==
  /\ i \in 1..Len(forecastReqs)
  /\ forecastReqs' = RemoveAt(forecastReqs, i)
  /\ loadingForecast' = FALSE
  /\ error' = "Failed to fetch forecast data"
  /\ lastEvent' = Event("forecastFails", "", FALSE, <<>>)
  /\ UNCHANGED <<searchQuery, acVars, loading, locationAllowed, weatherData,
                 forecastData, hasGeolocation, geoReqs, weatherReqs, downs, unhandled,
                 forecastVars, apiVars>>

\* getForecastByCoords rejects: catch (log only) and finally
ForecastFails(i) ==
  /\ i \in 1..Len(forecastReqs)
  /\ forecastReqs' = RemoveAt(forecastReqs, i)
  /\ loadingForecast' = FALSE
  /\ lastEvent' = Event("forecastFails", "", FALSE, <<>>)
  /\ UNCHANGED <<searchQuery, acVars, loading, error, locationAllowed, weatherData,
                 forecastData, hasGeolocation, geoReqs, weatherReqs, downs, unhandled,
                 forecastVars, apiVars>>

\* ------------------------------------------------------------ specification
\* The search flow: every handler of CityAutocomplete and of Weather, with the
\* weather request of a selection or of a located position followed up to its
\* rejection.  CityAutocomplete reads only value and disabled from Weather, and
\* both ways getWeatherByCoords can settle end with setLoading(false) and leave
\* searchQuery alone; WeatherSucceeds and the forecast requests it starts
\* do not act on the state the search flow reads.
Next ==
  \/ \E v \in Texts : Type(v)
  \/ \E i \in 1..Len(timers) : TimerFires(i)
  \/ \E i \in 1..Len(searchReqs), o \in Outcomes : SearchSettles(i, o)
  \/ \E i \in 1..Len(suggestions) : ClickSuggestion(i)
  \/ KeyArrowDown
  \/ KeyArrowUp
  \/ KeyEnter
  \/ KeyEscape
  \/ Focus
  \/ ClickOutside
  \/ MouseDownInside
  \/ UseLocation
  \/ \E i \in 1..Len(geoReqs) : GeoSucceeds(i)
  \/ \E i \in 1..Len(geoReqs), c \in GeoFailures : GeoFails(i, c)
  \/ \E i \in 1..Len(weatherReqs), m \in WeatherErrors : WeatherFails(i, m)

Spec == Init /\ [][Next]_vars

\* The weather flow: the handlers that start a request or open the panel a
\* selection is made from, and every way a request can settle.  The keys,
\* focus and mousedown handlers left out act on the cursor and on isOpen only,
\* and Enter commits a suggestion as a click on it does.
WeatherNext ==
  \/ \E v \in Texts : Type(v)
  \/ \E i \in 1..Len(timers) : TimerFires(i)
  \/ \E i \in 1..Len(searchReqs), o \in Outcomes : SearchSettles(i, o)
  \/ \E i \in 1..Len(suggestions) : ClickSuggestion(i)
  \/ UseLocation
  \/ \E i \in 1..Len(geoReqs) : GeoSucceeds(i)
  \/ \E i \in 1..Len(geoReqs), c \in GeoFailures : GeoFails(i, c)
  \/ \E i \in 1..Len(weatherReqs), m \in WeatherErrors : WeatherFails(i, m)
  \/ \E i \in 1..Len(weatherReqs) : WeatherSucceeds(i)
  \/ \E i \in 1..Len(forecastReqs) : ForecastSucceeds(i)
  \/ \E i \in 1..Len(forecastReqs) : ForecastFails(i)

WeatherSpec == Init /\ [][WeatherNext]_vars

\* every outstanding request is answered
GeoSettles ==
  \E i \in 1..Len(geoReqs) : GeoSucceeds(i) \/ \E c \in GeoFailures : GeoFails(i, c)
WeatherSettles ==
  \E i \in 1..Len(weatherReqs) :
    WeatherSucceeds(i) \/ \E m \in WeatherErrors : WeatherFails(i, m)
ForecastSettles ==
  \E i \in 1..Len(forecastReqs) : ForecastSucceeds(i) \/ ForecastFails(i)

\* The weather flow with responses of at most MaxFairData records: which
\* suggestion is selected does not matter to loading.
FairOutcomes == {o \in Outcomes : Len(o.data) <= MaxFairData}

FairWeatherNext ==
  \/ \E v \in Texts : Type(v)
  \/ \E i \in 1..Len(timers) : TimerFires(i)
  \/ \E i \in 1..Len(searchReqs), o \in FairOutcomes : SearchSettles(i, o)
  \/ \E i \in 1..Len(suggestions) : ClickSuggestion(i)
  \/ UseLocation
  \/ GeoSettles
  \/ WeatherSettles
  \/ ForecastSettles

\* getCurrentPosition calls one of its callbacks and a fetch settles, sooner
\* or later
FairWeatherSpec ==
  /\ Init /\ [][FairWeatherNext]_vars
  /\ WF_vars(GeoSettles)
  /\ WF_vars(WeatherSettles)
  /\ WF_vars(ForecastSettles)

\* The weather flow with a second forecast fetch allowed to start while one
\* is in flight (the forecast effect of Weather.tsx:21-36 has no cleanup and
\* cancels nothing), and with responses of at most MaxFairData records.
OverlapNext ==
  \/ \E v \in Texts : Type(v)
  \/ \E i \in 1..Len(timers) : TimerFires(i)
  \/ \E i \in 1..Len(searchReqs), o \in FairOutcomes : SearchSettles(i, o)
  \/ \E i \in 1..Len(suggestions) : ClickSuggestion(i)
  \/ UseLocation
  \/ \E i \in 1..Len(geoReqs) : GeoSucceeds(i)
  \/ \E i \in 1..Len(geoReqs), c \in GeoFailures : GeoFails(i, c)
  \/ \E i \in 1..Len(weatherReqs), m \in WeatherErrors : WeatherFails(i, m)
  \/ \E i \in 1..Len(weatherReqs) : WeatherSucceedsUnder(i, MaxOverlap)
  \/ \E i \in 1..Len(forecastReqs) : ForecastSucceeds(i)
  \/ \E i \in 1..Len(forecastReqs) : ForecastFails(i)

OverlapSpec == Init /\ [][OverlapNext]_vars

\* ------------------------------------------------------------------ Forecast
\* Time is counted in whole hours since 1970-01-01T00:00Z: item.dt is a whole
\* hour, new Date(item.dt * 1000) is that instant, and the local time zone
\* has no daylight-saving change in the days the forecast covers.

\* most points in one forecast list
MaxPoints == 16

\* Forecast.tsx:65  .slice(0, 5)
MaxDays == 5
\* Forecast.tsx:28  hour >= 11 && hour <= 14
NoonFrom == 11
NoonTo == 14

\* the months of 1970, the year of every instant of the model
MonthDays == <<31, 28, 31, 30, 31, 30, 31, 31, 30, 31, 30, 31>>
MonthNames == <<"Jan", "Feb", "Mar", "Apr", "May", "Jun",
                "Jul", "Aug", "Sep", "Oct", "Nov", "Dec">>
WeekDays == <<"Sun", "Mon", "Tue", "Wed", "Thu", "Fri", "Sat">>

\* month and day of the n-th day (from 0) counted from the first of month m
RECURSIVE CivilFrom(_, _)
CivilFrom(m, n) ==
  IF n < MonthDays[m] THEN [month |-> m, day |-> n + 1]
  ELSE CivilFrom(m + 1, n - MonthDays[m])

\* the calendar date of a day counted from 1970-01-01
Civil(dayNumber) == CivilFrom(1, dayNumber)

RECURSIVE DaysBefore(_)
DaysBefore(m) == IF m = 1 THEN 0 ELSE DaysBefore(m - 1) + MonthDays[m - 1]

TwoDigits(n) == <<Digits[(n \div 10) + 1], Digits[(n % 10) + 1]>>

\* date.toISOString().split('T')[0]: the date in UTC, as YYYY-MM-DD
toISODate(t) ==
  LET c == Civil(t \div 24)
  IN  <<"1", "9", "7", "0", "-">> \o TwoDigits(c.month) \o <<"-">> \o TwoDigits(c.day)

\* new Date(dateKey): a date-only string is midnight UTC of that date
parseISODate(key) ==
  24 * (DaysBefore(DigitsValue(SubSeq(key, 6, 7))) + DigitsValue(SubSeq(key, 9, 10)) - 1)

\* Date.prototype.getHours: the hour of the day in the local time zone
getHours(t) == (t + tzOffset) % 24

\* setHours(0, 0, 0, 0): midnight of the local date of t
setHoursZero(t) == t - getHours(t)

\* the local date of t, as a day counted from 1970-01-01
LocalDay(t) == (t + tzOffset) \div 24

\* date.toLocaleDateString('en-US', {weekday: 'short', month: 'short', day: 'numeric'})
toLocaleDateString(t) ==
  LET c == Civil(LocalDay(t))
  IN  <<WeekDays[((LocalDay(t) + 4) % 7) + 1], ",", " ", MonthNames[c.month], " ">>
        \o (IF c.day < 10 THEN <<Digits[c.day + 1]>> ELSE TwoDigits(c.day))

\* a.localeCompare(b) on date keys: "-" sorts before the digits
CharOrder == <<"-">> \o Digits
CharRank(c) == CHOOSE i \in 1..Len(CharOrder) : CharOrder[i] = c

RECURSIVE localeCompare(_, _)
localeCompare(a, b) ==
  IF a = EmptyStr /\ b = EmptyStr THEN 0
  ELSE IF a = EmptyStr THEN -1
  ELSE IF b = EmptyStr THEN 1
  ELSE IF CharRank(Head(a)) < CharRank(Head(b)) THEN -1
  ELSE IF CharRank(Head(a)) > CharRank(Head(b)) THEN 1
  ELSE localeCompare(Tail(a), Tail(b))

\* one step of the reduce of lines 10-19; acc holds the keys in the order
\* they were inserted, as Object.entries lists them
GroupStep(acc, item) ==
  LET dateKey == toISODate(item.dt)
  IN  IF \E i \in 1..Len(acc) : acc[i].key = dateKey
      THEN [i \in 1..Len(acc) |->
              IF acc[i].key = dateKey
              THEN [key |-> dateKey, items |-> Append(acc[i].items, item)]
              ELSE acc[i]]
      ELSE Append(acc, [key |-> dateKey, items |-> <<item>>])

RECURSIVE Reduce(_, _)
Reduce(acc, items) ==
  IF items = <<>> THEN acc ELSE Reduce(GroupStep(acc, Head(items)), Tail(items))

groupedByDate(items) == Reduce(<<>>, items)

\* .sort(([a], [b]) => a.localeCompare(b)): a stable sort
RECURSIVE InsertEntry(_, _)
InsertEntry(sorted, e) ==
  IF sorted = <<>> THEN <<e>>
  ELSE IF localeCompare(e.key, Head(sorted).key) < 0 THEN <<e>> \o sorted
  ELSE <<Head(sorted)>> \o InsertEntry(Tail(sorted), e)

RECURSIVE SortEntries(_)
SortEntries(es) ==
  IF es = <<>> THEN <<>>
  ELSE InsertEntry(SortEntries(SubSeq(es, 1, Len(es) - 1)), es[Len(es)])

\* a noon test that leaves out 11 o'clock
IsNoonFromTwelve(hour) == hour > NoonFrom /\ hour <= NoonTo

IsNoon(hour) == hour >= NoonFrom /\ hour <= NoonTo

\* items.find(...): the index of the first match, 0 when there is none
RECURSIVE FindNoon(_, _)
FindNoon(items, i) ==
  IF i > Len(items) THEN 0
  ELSE IF IsNoon(getHours(items[i].dt)) THEN i
  ELSE FindNoon(items, i + 1)

\* noonForecast || items[Math.floor(items.length / 2)] || items[0]: the
\* middle element exists for every list of one or more items
Representative(items) ==
  LET noon == FindNoon(items, 1)
  IN  IF noon > 0 THEN items[noon] ELSE items[(Len(items) \div 2) + 1]

\* a day range taken from the provider's own minimum field
ProviderMinTemp(item) == item.main.temp_min

\* items.map(item => item.main.temp)
PointTemp(item) == item.main.temp

MathMin(items) ==
  LET temps == {PointTemp(items[i]) : i \in 1..Len(items)}
  IN  CHOOSE t \in temps : \A u \in temps : t <= u

MathMax(items) ==
  LET temps == {PointTemp(items[i]) : i \in 1..Len(items)}
  IN  CHOOSE t \in temps : \A u \in temps : t >= u

\* lines 39-54
displayDate(dateKey) ==
  LET date         == parseISODate(dateKey)
      today        == setHoursZero(clock)
      tomorrow     == today + 24
      forecastDate == setHoursZero(date)
  IN  IF forecastDate = today THEN "Today"
      ELSE IF forecastDate = tomorrow THEN "Tomorrow"
      ELSE toLocaleDateString(date)

\* the callback of .map, lines 24-64
DailyForecast(entry) ==
  [date        |-> entry.key,
   displayDate |-> displayDate(entry.key),
   forecast    |-> Representative(entry.items),
   minTemp     |-> MathMin(entry.items),
   maxTemp     |-> MathMax(entry.items),
   allItems    |-> entry.items]

\* a list of days that is not cut
AllDays(days) == days

\* .slice(0, 5)
CapDays(days) == Slice(days, MaxDays)

DailyForecastsOf(items) ==
  LET entries == SortEntries(groupedByDate(items))
  IN  CapDays([i \in 1..Len(entries) |-> DailyForecast(entries[i])])

\* ---------------------------------------------------- Forecast: its inputs
\* offsets of the local zone from UTC, in hours
TimeZones == {-5, 0, 2}

\* the first point of a list: 30 January, at 00:00, 05:00, 12:00 and 22:00 UTC
StartHours == {29 * 24 + h : h \in {0, 5, 12, 22}}

\* hours between two points of a list
Steps == {3, 13, 24}

\* the temperatures of a list, repeated along it
TempPatterns == {<<4>>, <<3, -1, 7>>, <<0, 2, -6, 5, 1>>}

\* when Forecast renders: on 30 and 31 January UTC
Clocks == {29 * 24 + h : h \in {1, 6, 13, 23, 30}}

\* the provider's list: points in chronological order
Points(start, step, count, pattern) ==
  [i \in 1..count |->
     LET temp == pattern[((i - 1) % Len(pattern)) + 1]
     IN  [dt   |-> start + (i - 1) * step,
          main |-> [temp |-> temp, temp_min |-> temp - 2, temp_max |-> temp + 2]]]

ForecastLists ==
  {Points(start, step, count, pattern) :
     start \in StartHours, step \in Steps, count \in 1..MaxPoints,
     pattern \in TempPatterns}

\* Weather after the position was found and both fetches have completed: it
\* shows Forecast with forecastData.list
ForecastShown ==
  /\ searchQuery = EmptyStr
  /\ suggestions = <<>>
  /\ isOpen = FALSE
  /\ selectedIndex = -1
  /\ timers = <<>>
  /\ debounceRef = "undefined"
  /\ searchReqs = <<>>
  /\ hasGeolocation = TRUE
  /\ loading = FALSE
  /\ error = "null"
  /\ locationAllowed = "true"
  /\ weatherData = <<GeoPosition>>
  /\ forecastData = <<GeoPosition>>
  /\ loadingForecast = FALSE
  /\ geoReqs = <<>>
  /\ weatherReqs = <<>>
  /\ forecastReqs = <<>>
  /\ lastEvent = Other
  /\ downs = -1
  /\ unhandled = FALSE

ForecastInit ==
  /\ ForecastShown
  /\ ApiIdle
  /\ forecastItems \in ForecastLists
  /\ tzOffset \in TimeZones
  /\ clock \in Clocks
  /\ dailyForecasts = <<>>

\* Forecast renders
RenderForecast ==
  /\ dailyForecasts' = DailyForecastsOf(forecastItems)
  /\ UNCHANGED <<searchQuery, acVars, weatherVars, histVars,
                 forecastItems, tzOffset, clock, apiVars>>

ForecastNext == RenderForecast

ForecastSpec == ForecastInit /\ [][ForecastNext]_vars

\* ------------------------------------------------- searchCities on its own
\* most records in an array handed to searchCities on its own
MaxArray == 3
\* largest limit argument
MaxLimit == 3

\* a record of type administrative, with a region and no state
RawRegion ==
  [type |-> "administrative", name |-> Some(<<"R">>), display_name |-> Some(<<"R", ",", "F">>),
   address |-> Some([country |-> Some(<<"F">>), state |-> Undefined, region |-> Some(<<"B">>)]),
   lat |-> Some(<<"5", "0">>), lon |-> Some(<<"3">>)]

ApiRecords == RawRecords \cup {RawRegion}

\* Weather mounted in a browser without geolocation, nothing typed yet
NoGeolocation ==
  /\ searchQuery = EmptyStr
  /\ suggestions = <<>>
  /\ isOpen = FALSE
  /\ selectedIndex = -1
  /\ timers = <<>>
  /\ debounceRef = "undefined"
  /\ searchReqs = <<>>
  /\ hasGeolocation = FALSE
  /\ loading = FALSE
  /\ error = "Geolocation is not supported by your browser"
  /\ locationAllowed = "false"
  /\ weatherData = <<>>
  /\ forecastData = <<>>
  /\ loadingForecast = FALSE
  /\ geoReqs = <<>>
  /\ weatherReqs = <<>>
  /\ forecastReqs = <<>>
  /\ lastEvent = Other
  /\ downs = -1
  /\ unhandled = FALSE

\* searchCities(query, limit) awaiting response.json(), which resolves to the
\* array apiData
SearchInit ==
  /\ NoGeolocation
  /\ ForecastIdle
  /\ apiData \in SeqsUpTo(ApiRecords, MaxArray)
  /\ apiLimit \in 0..MaxLimit
  /\ apiResult = <<>>

\* searchCities from line 148 on: the promise resolves to <<list>>
SearchCitiesResolves ==
  /\ apiResult = <<>>
  /\ apiResult' =
       <<searchCitiesCatch(searchCitiesTry(apiLimit, [kind |-> "array", data |-> apiData])).value>>
  /\ UNCHANGED <<searchQuery, acVars, weatherVars, histVars, forecastVars, apiData, apiLimit>>

SearchNext == SearchCitiesResolves

SearchSpec == SearchInit /\ [][SearchNext]_vars

\* ------------------------------------------------------------------- claims

\* C1: once every response has arrived, the suggestions are not those of a
\* superseded query: the response that arrives last is never the response
\* of a query started before a later one.
C1_LatestQueryWins ==
  (lastEvent.op = "response" /\ searchReqs = <<>> /\ suggestions # <<>>)
    => ~lastEvent.stale

\* C2: every edit of the text cancels the pending debounce timer before it
\* starts a new one: at most one timer is pending, and it holds the text of
\* the last edit, so only that edit leads to a searchCities call.
C2_OneTimerForLastEdit ==
  /\ Len(timers) <= 1
  /\ \A i \in 1..Len(timers) : timers[i] = searchQuery
  /\ (debounceRef = "pending") = (timers # <<>>)

\* an edit made inside the debounce window of the edit before it
C2_Witness ==
  lastEvent.op = "type" /\ lastEvent.kind = "restart" /\ timers = <<searchQuery>>

\* C3: an edit to a text whose trimmed length is below 2 empties the
\* suggestions and closes the panel in the same step and starts no timer.
C3_ShortTextClears ==
  (lastEvent.op = "type" /\ Len(Trim(searchQuery)) < MinQueryLen)
    => (suggestions = <<>> /\ ~isOpen /\ timers = <<>>)

\* C4: a geocoding request is issued only for a query whose length after
\* trimming is at least 2.
C4_NoRequestForShortQuery ==
  [][Len(searchReqs') > Len(searchReqs)
       => \E i \in 1..Len(timers) : /\ timers' = RemoveAt(timers, i)
                                    /\ Len(Trim(timers[i])) >= MinQueryLen]_vars

FailureClasses == {"network_failure", "not_ok", "bad_json", "non_array", "array_throwing"}

\* C5: searchCities never rejects, and resolves to the empty list when the
\* request fails, the status is not ok, the body is no array, or mapping a
\* record throws: the component then shows no suggestions.
C5_SearchNeverRaises ==
  /\ ~unhandled
  /\ (lastEvent.op = "response" /\ lastEvent.kind \in FailureClasses)
       => (suggestions = <<>> /\ ~isOpen)

\* the response to a query was an array with a record that has neither name
\* nor display_name
C5_Witness ==
  lastEvent.op = "response" /\ lastEvent.kind = "array_throwing" /\ suggestions = <<>>

\* C6 as stated: the cursor lies in [-1, len-1] in every state.
C6_CursorInRange ==
  selectedIndex >= -1 /\ selectedIndex <= Len(suggestions) - 1

\* C6 as amended: the cursor never goes below -1, and lies in [-1, len-1]
\* whenever the suggestion list is not empty.
C6_CursorInRangeOfShownList ==
  /\ selectedIndex >= -1
  /\ suggestions # <<>> => selectedIndex <= Len(suggestions) - 1

\* the cursor on the last suggestion of a list of two or more, one ArrowDown
\* after it got there
C6_Witness ==
  Len(suggestions) >= 2 /\ selectedIndex = Len(suggestions) - 1 /\ downs > Len(suggestions)

\* C7: after k ArrowDown presses from no selection on an open panel of len
\* suggestions the cursor is on suggestion min(k, len), the last one from
\* the len-th press on.
C7_ArrowDownReachesLast ==
  downs >= 0 => /\ isOpen
                /\ Len(suggestions) >= 1
                /\ selectedIndex = Min(downs, Len(suggestions)) - 1

\* one press more than the list is long
C7_Witness ==
  isOpen /\ Len(suggestions) >= 2 /\ downs = Len(suggestions) + 1

\* C8: a selection leaves the label of the suggestion in the input, has
\* called the selection callback once with it, and leaves the panel closed
\* and empty.
C8_SelectionLeavesLabel ==
  lastEvent.kind = "commit"
    => /\ searchQuery = getCityDisplayName(lastEvent.city[1])
       /\ ~isOpen
       /\ suggestions = <<>>
       /\ weatherReqs # <<>>
       /\ weatherReqs[Len(weatherReqs)] =
            [origin |-> "select", lat |-> lastEvent.city[1].lat, lon |-> lastEvent.city[1].lon]

\* the cursor is on a suggestion of the open panel
EnterInBounds ==
  isOpen /\ suggestions # <<>> /\ selectedIndex >= 0 /\ selectedIndex < Len(suggestions)

\* C9: Enter commits the suggestion under the cursor when the cursor is on
\* one of the open panel; otherwise it changes nothing and calls nothing.
C9_EnterCommitsOrNothing ==
  [][lastEvent'.op = "Enter"
       => IF EnterInBounds
          THEN /\ lastEvent'.kind = "commit"
               /\ lastEvent'.city = <<suggestions[selectedIndex + 1]>>
               /\ weatherReqs' = Append(weatherReqs,
                                        [origin |-> "select",
                                         lat |-> suggestions[selectedIndex + 1].lat,
                                         lon |-> suggestions[selectedIndex + 1].lon])
               /\ ~isOpen'
               /\ suggestions' = <<>>
          ELSE UNCHANGED <<searchQuery, acVars, weatherVars>>]_vars

\* Enter has committed the second suggestion
C9_Witness ==
  lastEvent.op = "Enter" /\ lastEvent.kind = "commit" /\ selectedIndex = 1 /\ loading

\* C10: Escape on the open panel closes it and leaves the text, the
\* suggestions and the cursor as they were.
C10_EscapeOnlyCloses ==
  [][(lastEvent'.op = "Escape" /\ isOpen)
       => (~isOpen' /\ UNCHANGED <<searchQuery, suggestions, selectedIndex>>)]_vars

\* Escape has closed a panel that had a suggestion selected
C10_Witness ==
  /\ lastEvent.op = "Escape" /\ lastEvent.kind = ""
  /\ ~isOpen /\ suggestions # <<>> /\ selectedIndex >= 0 /\ searchQuery # EmptyStr

\* C11: a mousedown outside the container closes the panel and leaves the
\* text, the suggestions, the cursor and the pending debounce timer as they
\* were; a mousedown inside does not close the panel.
C11_OutsideClickOnlyCloses ==
  [][/\ lastEvent'.op = "clickOutside"
          => (~isOpen' /\ UNCHANGED <<searchQuery, suggestions, selectedIndex,
                                      timers, debounceRef>>)
     /\ lastEvent'.op = "mouseDownInside" => UNCHANGED isOpen]_vars

\* an outside click has closed an open panel that had a suggestion selected,
\* while a debounce timer was pending
C11_Witness ==
  /\ lastEvent.op = "clickOutside" /\ lastEvent.kind = "closes"
  /\ ~isOpen /\ suggestions # <<>> /\ selectedIndex >= 0 /\ timers # <<>>

\* the UTC dates, as days counted from 1970-01-01, on which points of the list fall
UtcDays(items) == {items[i].dt \div 24 : i \in 1..Len(items)}

\* the day, counted from 1970-01-01, that a bucket's date key names
BucketDay(bucket) == parseISODate(bucket.date) \div 24

ThreeHourly(items) ==
  \A i \in 1..(Len(items) - 1) : items[i + 1].dt = items[i].dt + 3

C13_TodayAndTomorrow ==
  (dailyForecasts # <<>> /\ LocalDay(forecastItems[1].dt) = LocalDay(clock))
    => \A i \in 1..Len(dailyForecasts) :
         LET b == dailyForecasts[i]
         IN  /\ (\E k \in 1..Len(b.allItems) : b.allItems[k] = forecastItems[1])
                  => b.displayDate = "Today"
             /\ (\A k \in 1..Len(b.allItems) :
                   LocalDay(b.allItems[k].dt) = LocalDay(clock) + 1)
                  => b.displayDate = "Tomorrow"

\* the positions of the points of a bucket whose local hour is 11 to 14
NoonPoints(items) ==
  {k \in 1..Len(items) : getHours(items[k].dt) >= 11 /\ getHours(items[k].dt) <= 14}

C15_TempRange ==
  \A i \in 1..Len(dailyForecasts) :
    LET b == dailyForecasts[i]
    IN  /\ \A k \in 1..Len(b.allItems) :
             b.minTemp <= b.allItems[k].main.temp /\ b.allItems[k].main.temp <= b.maxTemp
        /\ b.minTemp <= b.maxTemp
        /\ \E k \in 1..Len(b.allItems) : b.allItems[k].main.temp = b.minTemp
        /\ \E k \in 1..Len(b.allItems) : b.allItems[k].main.temp = b.maxTemp

\* a bucket of three or more points whose temperatures differ, the lowest
\* and the highest not at its ends
C15_Witness ==
  \E i \in 1..Len(dailyForecasts) :
    LET b == dailyForecasts[i]
    IN  /\ Len(b.allItems) >= 3
        /\ b.minTemp < b.maxTemp
        /\ b.allItems[1].main.temp # b.minTemp
        /\ b.allItems[Len(b.allItems)].main.temp # b.maxTemp
        /\ b.allItems[1].main.temp # b.maxTemp

\* C16: when no fetch is in flight and both a snapshot and a forecast are
\* stored, the forecast is the one fetched for the snapshot's coordinates.
C16_ForecastOfShownWeather ==
  (/\ geoReqs = <<>> /\ weatherReqs = <<>> /\ forecastReqs = <<>>
   /\ weatherData # <<>> /\ forecastData # <<>>)
    => forecastData = weatherData

GeoFailOps == {"mountGeoFails", "useGeoFails"}

\* C17 as stated: a permission-denied failure of a location request, on
\* mount or from handleUseLocation, does not set the error message.
C17_DeniedSetsNoError ==
  [][(lastEvent'.op \in GeoFailOps /\ lastEvent'.kind = "PERMISSION_DENIED")
       => UNCHANGED error]_vars

\* C17 as amended: a permission-denied failure of the request made on mount
\* leaves the error message as it was; one of a request made by
\* handleUseLocation sets its own message.  Both end loading.
C17_DeniedOnMountSetsNoError ==
  [][lastEvent'.kind = "PERMISSION_DENIED"
       => /\ ~loading'
          /\ lastEvent'.op = "mountGeoFails"
               => (UNCHANGED error /\ locationAllowed' = "false")
          /\ lastEvent'.op = "useGeoFails"
               => (error' = UseGeoError("PERMISSION_DENIED") /\ UNCHANGED locationAllowed)]_vars

\* the request made on mount was denied: no message, and Use Location is offered
C17_Witness ==
  /\ lastEvent.op = "mountGeoFails" /\ lastEvent.kind = "PERMISSION_DENIED"
  /\ error = "null" /\ locationAllowed = "false" /\ ~loading

\* C18: a failed forecast fetch leaves the error message and the stored
\* snapshot as they were and ends the forecast-loading state.
C18_ForecastFailureIsSilent ==
  [][lastEvent'.op = "forecastFails"
       => (/\ UNCHANGED <<error, weatherData, forecastData, loading, locationAllowed,
                          searchQuery, acVars>>
           /\ ~loadingForecast')]_vars

\* the forecast fetch for a shown snapshot has failed while a message was shown
C18_Witness ==
  /\ lastEvent.op = "forecastFails"
  /\ weatherData # <<>> /\ forecastData = <<>> /\ error # "null" /\ ~loadingForecast

FailureOps == GeoFailOps \cup {"weatherFails", "forecastFails"}

\* C19: when every outstanding request is answered, loading does not stay
\* true, and every failure is followed by a state in which loading is false.
C19_LoadingEnds ==
  /\ loading ~> ~loading
  /\ (lastEvent.op \in FailureOps) ~> ~loading

\* a failed forecast fetch while the weather of another location is loading
C19_Witness ==
  lastEvent.op = "forecastFails" /\ loading /\ weatherReqs # <<>>

PlaceTypes == {"city", "town", "administrative"}

\* the positions of the records of a place type in the provider's array
PlaceIndexes == {k \in 1..Len(apiData) : apiData[k].type \in PlaceTypes}

\* the position of the j-th of them
NthPlace(j) ==
  CHOOSE k \in PlaceIndexes : Cardinality({m \in PlaceIndexes : m <= k}) = j

\* how many of them the limit lets through
KeptCount == Min(apiLimit, Cardinality(PlaceIndexes))

\* the j-th entry of the list is made from the j-th record of a place type
\* (every record of the model has coordinates of its own)
ListIsKeptPlaces(list) ==
  /\ Len(list) = KeptCount
  /\ \A j \in 1..KeptCount :
       /\ list[j].lat = parseFloat(apiData[NthPlace(j)].lat)
       /\ list[j].lon = parseFloat(apiData[NthPlace(j)].lon)

\* C20 as stated: for every array and limit the list is made of the first
\* limit records of type city, town or administrative, in the array's order.
C20_FilteredAndLimited ==
  apiResult # <<>> => ListIsKeptPlaces(apiResult[1])

\* one of the records let through has neither name nor display_name
KeptNameless ==
  \E j \in 1..KeptCount :
    apiData[NthPlace(j)].name = Undefined /\ apiData[NthPlace(j)].display_name = Undefined

\* C20 as amended: the list is made of the first limit records of a place
\* type, in the array's order, unless one of these has neither name nor
\* display_name: then the list is empty.
C20_FilteredAndLimitedUnlessThrown ==
  apiResult # <<>> =>
    IF KeptNameless THEN apiResult[1] = <<>> ELSE ListIsKeptPlaces(apiResult[1])

\* a village is dropped, the administrative record is kept and the limit of
\* 1 cuts the city after it
C20_Witness ==
  /\ apiData = <<RawVillage, RawRegion, RawParis>>
  /\ apiLimit = 1
  /\ apiResult = <<<<MapItem(RawRegion)>>>>

\* C21: once the panel has been emptied and closed, by a selection or by the
\* text dropping below 2 characters, the list stays empty and the panel stays
\* closed until a query started by a later keystroke completes.  A selection
\* leaves the text empty, and while the text is below 2 characters the last
\* edit was a clearing one and no keystroke after it has started a query: in
\* every such state the list is empty and the panel is closed.
C21_ClearedPanelStaysClosed ==
  TooShort(searchQuery) => (suggestions = <<>> /\ ~isOpen)

\* the request chains for the current weather that are in flight: a
\* geolocation request, or the getWeatherByCoords call that follows it or a
\* selection
ChainsInFlight == Len(geoReqs) + Len(weatherReqs)

\* C22: at most one current-weather request chain is in flight at any time.
C22_OneChainInFlight ==
  ChainsInFlight <= 1

\* C23: loadingForecast is true in every state in which a forecast fetch is
\* in flight and false in every state in which none is, also when two
\* fetches overlap.
C23_FlagTracksFetches ==
  loadingForecast = (forecastReqs # <<>>)

====
